---- MODULE Spec2Model ----
(***************************************************************************)
(* Unicast transport manager (zenoh/src/net/transport/unicast/manager.rs)  *)
(* and router admin space (zenoh-router/src/runtime/adminspace.rs).        *)
(*                                                                         *)
(* The specifications share the module's variables:                       *)
(*   SpecLink       handle_new_link_unicast and its accept task            *)
(*   SpecTransport  init_transport_unicast / del_transport_unicast         *)
(*   SpecListener   the link-manager registry and the listener operations  *)
(*   SpecAddDel     SpecListener restricted to add_listener / del_listener *)
(*   SpecListenerFair  SpecListener with every call in progress scheduled  *)
(*   SpecAdmin      AdminSpace::resource / AdminSpace::query               *)
(*   SpecPrimitives SpecAdmin and the other primitives operations          *)
(*   SpecBuilder    TransportManagerConfigBuilderUnicast::from_properties  *)
(***************************************************************************)
EXTENDS Integers, Sequences, FiniteSets, TLC

(***************************************************************************)
(* Bounds of the model                                                     *)
(***************************************************************************)
\* number of incoming links handed to handle_new_link_unicast
NumLinks == 3
\* largest configured open_pending / max_transports
MaxLimit == 2
\* length of the configured link_authenticator chain
NumLinkAuth == 2
\* largest length of the configured peer_authenticator chain
MaxPeerAuth == 2
\* number of link managers LinkManagerBuilderUnicast::make may build
MaxLm == 2
\* largest number of keys in a ConfigProperties bag
MaxBagKeys == 2
\* largest number of from_properties calls made in a row
MaxApply == 2
\* number of queries (qids) sent to the admin space
MaxQueries == 1
\* largest resource id declared to the admin space
MaxRid == 1
\* longest resource name (in symbols) the admin space is made to store
MaxNameLen == 8

NONE == "None"

Links == 1..NumLinks
Peers == {"p1", "p2"}
WhatAmI == {"router", "peer"}
SnResolutions == {"r28", "r14"}

\* TransportConfigUnicast values handed to init_transport_unicast: for each
\* peer a base configuration and the ones that differ from it in one field
BaseConfig(p) ==
    [peer |-> p, whatami |-> "router", sn_resolution |-> "r28",
     initial_sn_tx |-> 0, initial_sn_rx |-> 0, is_shm |-> FALSE, is_qos |-> FALSE]

Configs ==
    UNION {{BaseConfig(p),
            [BaseConfig(p) EXCEPT !.whatami = "peer"],
            [BaseConfig(p) EXCEPT !.sn_resolution = "r14"],
            [BaseConfig(p) EXCEPT !.is_shm = TRUE],
            [BaseConfig(p) EXCEPT !.initial_sn_tx = 1],
            [BaseConfig(p) EXCEPT !.is_qos = TRUE]} : p \in Peers}

\* the configurations a handshake run by accept_link may negotiate
AcceptConfigs == {BaseConfig(p) : p \in Peers}

\* the peer authenticators that may be configured, and the chains of them
PeerAuths == 1..MaxPeerAuth
PeerAuthChains == {[i \in 1..n |-> i] : n \in 0..MaxPeerAuth}

DelTasks == {"d1", "d2"}

\* locator protocols: the ones a link manager can be made for, and one more
Supported == {"tcp"}
Protocols == Supported \cup {"quic"}
Locators == {<<"tcp", "a">>, <<"tcp", "b">>, <<"quic", "a">>}
\* callers of add_listener / del_listener / open_transport
LsTasks == {"t1", "t2"}
\* the configurations a handshake run by open_link may negotiate
OpenConfigs == {BaseConfig("p1")}

VARIABLES
    \* ---- TransportManagerConfigUnicast ----
    open_pending,      \* config.unicast.open_pending
    max_transports,    \* config.unicast.max_transports
    peer_authenticator,\* config.unicast.peer_authenticator (a sequence)
    \* ---- TransportManagerConfigBuilderUnicast ----
    cb,                \* the builder
    cbBag,             \* the ConfigProperties bag from_properties is called with
    cbRes,             \* "none", or the result of the last from_properties call
    cbCalls,           \* number of from_properties calls made in a row
    \* ---- TransportManagerStateUnicast ----
    incoming,          \* HashMap<Link, Option<Vec<u8>>>
    incomingLock,      \* holders of the async mutex around incoming ({} = free)
    transports,        \* HashMap<PeerId, TransportUnicastInner>
    \* ---- handle_new_link_unicast, one invocation per link ----
    hnl,               \* position of the invocation / of its accept task
    la_i,              \* index of the next link authenticator (1 outside the loop)
    peer_id,           \* the local Option<PeerId>, moved into the accept task
                       \* and dropped when accept_link returns
    closed,            \* links on which close() has been called
    closers,           \* per link, who has called close() on it
    la_calls,          \* per link, the link authenticators whose handle_new_link
                       \* was called, in call order, and whether each returned Ok
    la_seen,           \* per link, the Some(peer id) results its authenticators
                       \* returned; dropped together with peer_id
    \* ---- init_transport_unicast / del_transport_unicast ----
    itLast,            \* the result of the last init_transport_unicast call
    dt,                \* del_transport_unicast calls, one per task: position,
                       \* peer, loop index and the handle_close calls made
    \* ---- link-manager registry and listeners ----
    protocols,         \* HashMap<LocatorProtocol, LinkManagerUnicast>
    protocolsLock,     \* holders of the mutex around protocols ({} = free)
    lms,               \* the LinkManagerUnicast objects made so far, in order of
                       \* creation: protocol and listeners of each
    deleted,           \* the managers del_link_manager_unicast took out
    ls,                \* add_listener / del_listener / open_transport calls,
                       \* one per task
    \* ---- AdminSpace ----
    handlers,          \* the handler paths, in the iteration order of the HashMap
    mappings,          \* HashMap<ZInt, String>
    qs,                \* the query calls (with the kind of their key) and their
                       \* reply tasks, one per qid
    out,               \* what was sent through primitives, per qid, in order
    otherTraced        \* whether a primitives operation other than resource and
                       \* query was called on the admin space (each one is traced)

linkVars == <<incoming, incomingLock, hnl, la_i, peer_id, closed, closers, la_calls, la_seen>>
cbVars == <<cb, cbBag, cbRes, cbCalls>>
cfgVars == <<open_pending, max_transports, peer_authenticator, cbVars>>
trVars == <<itLast, dt>>
lsVars == <<protocols, protocolsLock, lms, deleted, ls>>
adVars == <<handlers, mappings, qs, out, otherTraced>>
vars == <<cfgVars, linkVars, transports, trVars, lsVars, adVars>>

(***************************************************************************)
(* HashMap helpers                                                         *)
(***************************************************************************)
MapInsert(m, k, v) == [x \in (DOMAIN m) \cup {k} |-> IF x = k THEN v ELSE m[x]]
MapRemove(m, k) == [x \in (DOMAIN m) \ {k} |-> m[x]]
MapLen(m) == Cardinality(DOMAIN m)
EmptyMap == [x \in {} |-> NONE]

(***************************************************************************)
(* init_transport_unicast (manager.rs 310-388): the whole function runs    *)
(* under the transports mutex; it yields the result and the new table.     *)
(***************************************************************************)
NewTransport(cfg) ==
    [whatami |-> cfg.whatami, sn_resolution |-> cfg.sn_resolution,
     initial_sn_tx |-> cfg.initial_sn_tx, initial_sn_rx |-> cfg.initial_sn_rx,
     is_shm |-> cfg.is_shm, is_qos |-> cfg.is_qos]

\* the three comparisons against the stored transport, in the code's order
ExistingCheck_noshm(transport, cfg) ==
    IF transport.whatami # cfg.whatami THEN "err_whatami"
    ELSE IF transport.sn_resolution # cfg.sn_resolution THEN "err_sn_resolution"
    ELSE "ok_existing"

ExistingCheck(transport, cfg) ==
    IF transport.whatami # cfg.whatami THEN "err_whatami"
    ELSE IF transport.sn_resolution # cfg.sn_resolution THEN "err_sn_resolution"
    ELSE IF transport.is_shm # cfg.is_shm THEN "err_is_shm"
    ELSE "ok_existing"

LimitReached_offbyone(len, max) == len > max

LimitReached(len, max) == len >= max

\* an init_transport that tests the limit before it looks the peer up
init_transport_unicast_limitfirst(table, cfg, max) ==
    IF LimitReached(MapLen(table), max)
    THEN [res |-> "err_max_transports", table |-> table]
    ELSE IF cfg.peer \in DOMAIN table
    THEN [res |-> ExistingCheck(table[cfg.peer], cfg), table |-> table]
    ELSE [res |-> "ok_new", table |-> MapInsert(table, cfg.peer, NewTransport(cfg))]

init_transport_unicast(table, cfg, max) ==
    IF cfg.peer \in DOMAIN table
    THEN [res |-> ExistingCheck(table[cfg.peer], cfg), table |-> table]
    ELSE IF LimitReached(MapLen(table), max)
    THEN [res |-> "err_max_transports", table |-> table]
    ELSE [res |-> "ok_new", table |-> MapInsert(table, cfg.peer, NewTransport(cfg))]

IsOk(res) == res \in {"ok_existing", "ok_new"}

(***************************************************************************)
(* handle_new_link_unicast (manager.rs 430-506)                            *)
(***************************************************************************)
AdmissionFull_offbyone(len, limit) == len > limit

\* guard.len() >= self.config.unicast.open_pending
AdmissionFull(len, limit) == len >= limit

\* Collaborators: a link authenticator that returns an error has disposed of
\* the link, and accept_link closes the link when the handshake fails.
AuthenticatorDisposes(cl, l) == cl \cup {l}
EstablishmentDisposes(cl, l) == cl \cup {l}

HnlDone == {"done_refused", "done_auth_err", "done_ambiguous", "done_accepted",
            "done_failed", "done_timeout"}

\* zasynclock!(incoming); the admission check; insert and drop(guard)
HnlAdmit(l) ==
    /\ hnl[l] = "start"
    /\ incomingLock = {}
    /\ IF AdmissionFull(MapLen(incoming), open_pending)
       THEN /\ incomingLock' = {l}
            /\ hnl' = [hnl EXCEPT ![l] = "refuse_close"]
            /\ UNCHANGED incoming
       ELSE /\ incoming' = MapInsert(incoming, l, NONE)
            /\ hnl' = [hnl EXCEPT ![l] = "auth"]
            /\ UNCHANGED incomingLock
    /\ UNCHANGED <<closers, la_calls, la_seen, la_i, peer_id,
                 closed, transports, cfgVars, trVars, lsVars, adVars>>

\* a refusal that returns without closing the link
HnlRefuseClose_noclose(l) ==
    /\ hnl[l] = "refuse_close"
    /\ incomingLock = {l}
    /\ incomingLock' = {}
    /\ hnl' = [hnl EXCEPT ![l] = "done_refused"]
    /\ UNCHANGED <<closed, closers, la_calls, la_seen, incoming, la_i, peer_id,
                   transports, cfgVars, trVars, lsVars, adVars>>

\* link.close().await; return (the guard is dropped on return)
HnlRefuseClose(l) ==
    /\ hnl[l] = "refuse_close"
    /\ incomingLock = {l}
    /\ closed' = closed \cup {l}
    /\ incomingLock' = {}
    /\ hnl' = [hnl EXCEPT ![l] = "done_refused"]
    /\ closers' = [closers EXCEPT ![l] = @ \cup {"handle_new_link"}]
    /\ UNCHANGED <<la_calls, la_seen, incoming, la_i, peer_id,
                 transports, cfgVars, trVars, lsVars, adVars>>

\* a loop that keeps the last Some(pid) and never compares
HnlAuthOk_lastwins(l, pid) ==
    /\ hnl[l] = "auth"
    /\ la_i[l] <= NumLinkAuth
    /\ peer_id' = [peer_id EXCEPT ![l] = IF pid # NONE THEN pid ELSE @]
    /\ la_i' = [la_i EXCEPT ![l] = @ + 1]
    /\ la_calls' = [la_calls EXCEPT ![l] = Append(@, [la |-> la_i[l], ok |-> TRUE])]
    /\ la_seen' = [la_seen EXCEPT ![l] = @ \cup ({pid} \ {NONE})]
    /\ UNCHANGED <<hnl, closers, incoming, incomingLock, closed, transports,
                   cfgVars, trVars, lsVars, adVars>>

\* one iteration of the authenticator loop with result Ok(pid)
HnlAuthOk(l, pid) ==
    /\ hnl[l] = "auth"
    /\ la_i[l] <= NumLinkAuth
    /\ IF peer_id[l] # NONE
       THEN IF pid # NONE /\ peer_id[l] # pid
            THEN /\ hnl' = [hnl EXCEPT ![l] = "ambiguous_close"]
                 /\ la_i' = [la_i EXCEPT ![l] = 1]
                 /\ peer_id' = [peer_id EXCEPT ![l] = NONE]
            ELSE /\ la_i' = [la_i EXCEPT ![l] = @ + 1]
                 /\ UNCHANGED <<hnl, peer_id>>
       ELSE /\ peer_id' = [peer_id EXCEPT ![l] = pid]
            /\ la_i' = [la_i EXCEPT ![l] = @ + 1]
            /\ UNCHANGED hnl
    /\ la_calls' = [la_calls EXCEPT ![l] = Append(@, [la |-> la_i[l], ok |-> TRUE])]
    /\ la_seen' = [la_seen EXCEPT ![l] = @ \cup ({pid} \ {NONE})]
    /\ UNCHANGED <<closers, incoming, incomingLock, closed,
                 transports, cfgVars, trVars, lsVars, adVars>>

\* a loop that logs the error and goes on with the next authenticator
HnlAuthErr_continue(l) ==
    /\ hnl[l] = "auth"
    /\ la_i[l] <= NumLinkAuth
    /\ la_i' = [la_i EXCEPT ![l] = @ + 1]
    /\ la_calls' = [la_calls EXCEPT ![l] = Append(@, [la |-> la_i[l], ok |-> FALSE])]
    /\ UNCHANGED <<hnl, peer_id, la_seen, closed, closers, incoming, incomingLock,
                   transports, cfgVars, trVars, lsVars, adVars>>

\* one iteration of the authenticator loop with result Err(e): return
HnlAuthErr(l) ==
    /\ hnl[l] = "auth"
    /\ la_i[l] <= NumLinkAuth
    /\ hnl' = [hnl EXCEPT ![l] = "done_auth_err"]
    /\ closed' = AuthenticatorDisposes(closed, l)
    /\ la_i' = [la_i EXCEPT ![l] = 1]
    /\ peer_id' = [peer_id EXCEPT ![l] = NONE]
    /\ la_calls' = [la_calls EXCEPT ![l] = Append(@, [la |-> la_i[l], ok |-> FALSE])]
    /\ la_seen' = [la_seen EXCEPT ![l] = {}]
    /\ closers' = [closers EXCEPT ![l] = @ \cup {"link_authenticator"}]
    /\ UNCHANGED <<incoming, incomingLock, transports, cfgVars, trVars, lsVars, adVars>>

\* ambiguous peer id: link.close().await
HnlAmbiguousClose(l) ==
    /\ hnl[l] = "ambiguous_close"
    /\ closed' = closed \cup {l}
    /\ hnl' = [hnl EXCEPT ![l] = "ambiguous_remove"]
    /\ closers' = [closers EXCEPT ![l] = @ \cup {"handle_new_link"}]
    /\ UNCHANGED <<la_calls, la_seen, incoming, incomingLock, la_i,
                 peer_id, transports, cfgVars, trVars, lsVars, adVars>>

\* ambiguous peer id: zasynclock!(incoming).remove(&link); return
HnlAmbiguousRemove(l) ==
    /\ hnl[l] = "ambiguous_remove"
    /\ incomingLock = {}
    /\ incoming' = MapRemove(incoming, l)
    /\ hnl' = [hnl EXCEPT ![l] = "done_ambiguous"]
    /\ UNCHANGED <<closers, la_calls, la_seen, incomingLock, la_i, peer_id,
                 closed, transports, cfgVars, trVars, lsVars, adVars>>

\* the loop is over: task::spawn of the accept task
HnlSpawn(l) ==
    /\ hnl[l] = "auth"
    /\ la_i[l] > NumLinkAuth
    /\ hnl' = [hnl EXCEPT ![l] = "accept"]
    /\ la_i' = [la_i EXCEPT ![l] = 1]
    /\ UNCHANGED <<closers, la_calls, la_seen, incoming, incomingLock, peer_id,
                 closed, transports, cfgVars, trVars, lsVars, adVars>>

\* accept_link returned Ok(Ok(())): the handshake called init_transport
AcceptOk(l, cfg) ==
    /\ hnl[l] = "accept"
    /\ LET r == init_transport_unicast(transports, cfg, max_transports)
       IN /\ IsOk(r.res)
          /\ transports' = r.table
    /\ hnl' = [hnl EXCEPT ![l] = "accepted"]
    /\ peer_id' = [peer_id EXCEPT ![l] = NONE]
    /\ la_seen' = [la_seen EXCEPT ![l] = {}]
    /\ UNCHANGED <<closers, la_calls, incoming, incomingLock, la_i,
                 closed, cfgVars, trVars, lsVars, adVars>>

\* accept_link returned Ok(Err(e)) within the deadline
AcceptFail(l) ==
    /\ hnl[l] = "accept"
    /\ hnl' = [hnl EXCEPT ![l] = "failed"]
    /\ closed' = EstablishmentDisposes(closed, l)
    /\ peer_id' = [peer_id EXCEPT ![l] = NONE]
    /\ la_seen' = [la_seen EXCEPT ![l] = {}]
    /\ closers' = [closers EXCEPT ![l] = @ \cup {"accept_link"}]
    /\ UNCHANGED <<la_calls, incoming, incomingLock, la_i,
                 transports, cfgVars, trVars, lsVars, adVars>>

\* the deadline expired: Err(e)
AcceptTimeout(l) ==
    /\ hnl[l] = "accept"
    /\ hnl' = [hnl EXCEPT ![l] = "timeout"]
    /\ peer_id' = [peer_id EXCEPT ![l] = NONE]
    /\ la_seen' = [la_seen EXCEPT ![l] = {}]
    /\ UNCHANGED <<closers, la_calls, incoming, incomingLock, la_i,
                 closed, transports, cfgVars, trVars, lsVars, adVars>>

\* an Err(e) arm that only logs
TaskTimeoutClose_noclose(l) ==
    /\ hnl[l] = "timeout"
    /\ hnl' = [hnl EXCEPT ![l] = "timeout_closed"]
    /\ UNCHANGED <<closed, closers, la_calls, la_seen, incoming, incomingLock, la_i,
                   peer_id, transports, cfgVars, trVars, lsVars, adVars>>

\* Err(e) arm: link.close().await
TaskTimeoutClose(l) ==
    /\ hnl[l] = "timeout"
    /\ closed' = closed \cup {l}
    /\ hnl' = [hnl EXCEPT ![l] = "timeout_closed"]
    /\ closers' = [closers EXCEPT ![l] = @ \cup {"accept_task"}]
    /\ UNCHANGED <<la_calls, la_seen, incoming, incomingLock, la_i,
                 peer_id, transports, cfgVars, trVars, lsVars, adVars>>

\* zasynclock!(c_incoming).remove(&link), the last statement of the task
TaskRemove(l) ==
    /\ hnl[l] \in {"accepted", "failed", "timeout_closed"}
    /\ incomingLock = {}
    /\ incoming' = MapRemove(incoming, l)
    /\ hnl' = [hnl EXCEPT ![l] =
                 CASE hnl[l] = "accepted" -> "done_accepted"
                   [] hnl[l] = "failed" -> "done_failed"
                   [] OTHER -> "done_timeout"]
    /\ UNCHANGED <<closers, la_calls, la_seen, incomingLock, la_i, peer_id,
                 closed, transports, cfgVars, trVars, lsVars, adVars>>

(***************************************************************************)
(* Link-manager registry (manager.rs 210-269) and listener operations      *)
(* (manager.rs 274-289), open_transport_unicast (manager.rs 390-400)       *)
(***************************************************************************)
\* a del_transport_unicast caller that has not called yet
TrIdle == [pc |-> "idle", peer |-> NONE, removed |-> FALSE, i |-> 1, calls |-> <<>>]

\* a registry caller that has not called yet
LsIdle == [pc |-> "idle", op |-> NONE, loc |-> NONE, mgr |-> 0, nlm |-> NONE,
           drain |-> {}, res |-> NONE]

InitRegistry ==
    /\ protocols = EmptyMap
    /\ protocolsLock = {}
    /\ lms = <<>>
    /\ deleted = {}
    /\ ls = [t \in LsTasks |-> LsIdle]

\* the call returns: its locals (manager, result of new_link_manager) are dropped
Done(r) == [r EXCEPT !.pc = "done", !.mgr = 0, !.nlm = NONE]

\* locator.get_proto()
Proto(loc) == loc[1]

\* LinkManagerBuilderUnicast::make succeeds for the protocols that are built in
MakeOk(p) == p \in Supported

\* the listeners of manager m with locator loc added / removed
WithListener(m, loc) == [lms EXCEPT ![m].listeners = @ \cup {loc}]
WithoutListener(m, loc) == [lms EXCEPT ![m].listeners = @ \ {loc}]

\* LinkManagerUnicast::new_listener fails on a locator it already listens on
\* (it may also fail on an I/O error, see LsNewListener)
NewListenerRefused(m, loc) == loc \in lms[m].listeners

\* LinkManagerUnicast::del_listener fails on a locator it does not listen on
DelListenerRefused(m, loc) == loc \notin lms[m].listeners

AlreadyExists_never(reg, p) == FALSE

\* w_guard.contains_key(protocol)
AlreadyExists(reg, p) == p \in DOMAIN reg

\* a caller enters add_listener_unicast / open_transport_unicast (both start
\* with get_or_new_link_manager_unicast) or del_listener_unicast
LsCall(t, op, loc) ==
    /\ ls[t].pc \in {"idle", "done"}
    /\ ls' = [ls EXCEPT ![t] = [LsIdle EXCEPT !.pc = IF op = "del" THEN "dl_get" ELSE "gon_get",
                                              !.op = op, !.loc = loc]]
    /\ UNCHANGED <<protocols, protocolsLock, lms, deleted,
                 transports, cfgVars, linkVars, trVars, adVars>>

\* get_or_new_link_manager_unicast: self.get_link_manager_unicast(protocol)
LsGonGet(t) ==
    /\ ls[t].pc = "gon_get"
    /\ protocolsLock = {}
    /\ LET p == Proto(ls[t].loc)
       IN IF p \in DOMAIN protocols
          THEN ls' = [ls EXCEPT ![t].mgr = protocols[p],
                                ![t].pc = IF ls[t].op = "add" THEN "new_listener" ELSE "new_link"]
          ELSE ls' = [ls EXCEPT ![t].pc = "gon_new"]
    /\ UNCHANGED <<protocols, protocolsLock, lms, deleted,
                 transports, cfgVars, linkVars, trVars, adVars>>

\* get_or_new_link_manager_unicast: self.new_link_manager_unicast(protocol),
\* the whole of it under the protocols mutex; Err(_) => continue
LsGonNew(t) ==
    /\ ls[t].pc = "gon_new"
    /\ protocolsLock = {}
    /\ LET p == Proto(ls[t].loc)
       IN IF AlreadyExists(protocols, p)
          THEN /\ ls' = [ls EXCEPT ![t].pc = "gon_get", ![t].nlm = "already_exists"]
               /\ UNCHANGED <<protocols, lms>>
          ELSE IF ~MakeOk(p)
          THEN /\ ls' = [ls EXCEPT ![t].pc = "gon_get", ![t].nlm = "make_failed"]
               /\ UNCHANGED <<protocols, lms>>
          ELSE /\ Len(lms) < MaxLm
               /\ lms' = Append(lms, [proto |-> p, listeners |-> {}])
               /\ protocols' = MapInsert(protocols, p, Len(lms) + 1)
               /\ ls' = [ls EXCEPT ![t].mgr = Len(lms) + 1, ![t].nlm = "ok",
                                    ![t].pc = IF ls[t].op = "add" THEN "new_listener"
                                              ELSE "new_link"]
    /\ UNCHANGED <<protocolsLock, deleted, transports, cfgVars, linkVars, trVars, adVars>>

\* add_listener_unicast: manager.new_listener(locator, ps).await
LsNewListener(t, io_ok) ==
    /\ ls[t].pc = "new_listener"
    /\ IF io_ok /\ ~NewListenerRefused(ls[t].mgr, ls[t].loc)
       THEN /\ lms' = WithListener(ls[t].mgr, ls[t].loc)
            /\ ls' = [ls EXCEPT ![t] = Done(ls[t]), ![t].res = "ok"]
       ELSE /\ ls' = [ls EXCEPT ![t] = Done(ls[t]), ![t].res = "err_new_listener"]
            /\ UNCHANGED lms
    /\ UNCHANGED <<protocols, protocolsLock, deleted, transports,
                 cfgVars, linkVars, trVars, adVars>>

\* open_transport_unicast: manager.new_link(locator, ps).await? failed, or
\* open_link failed
LsOpenFail(t) ==
    /\ ls[t].pc = "new_link"
    /\ ls' = [ls EXCEPT ![t] = Done(ls[t]), ![t].res = "err_open"]
    /\ UNCHANGED <<protocols, protocolsLock, lms, deleted,
                 transports, cfgVars, linkVars, trVars, adVars>>

\* open_transport_unicast: new_link and open_link succeeded; the handshake
\* called init_transport
LsOpenOk(t, cfg) ==
    /\ ls[t].pc = "new_link"
    /\ LET r == init_transport_unicast(transports, cfg, max_transports)
       IN /\ IsOk(r.res)
          /\ transports' = r.table
    /\ ls' = [ls EXCEPT ![t] = Done(ls[t]), ![t].res = "ok"]
    /\ UNCHANGED <<protocols, protocolsLock, lms, deleted,
                 cfgVars, linkVars, trVars, adVars>>

\* del_listener_unicast: self.get_link_manager_unicast(protocol)?
LsDelGet(t) ==
    /\ ls[t].pc = "dl_get"
    /\ protocolsLock = {}
    /\ LET p == Proto(ls[t].loc)
       IN IF p \in DOMAIN protocols
          THEN ls' = [ls EXCEPT ![t].mgr = protocols[p], ![t].pc = "dl_del"]
          ELSE ls' = [ls EXCEPT ![t] = Done(ls[t]), ![t].res = "err_no_manager"]
    /\ UNCHANGED <<protocols, protocolsLock, lms, deleted,
                 transports, cfgVars, linkVars, trVars, adVars>>

\* del_listener_unicast: lm.del_listener(locator).await?
LsDelListener(t) ==
    /\ ls[t].pc = "dl_del"
    /\ IF DelListenerRefused(ls[t].mgr, ls[t].loc)
       THEN /\ ls' = [ls EXCEPT ![t] = Done(ls[t]), ![t].res = "err_del_listener"]
            /\ UNCHANGED lms
       ELSE /\ lms' = WithoutListener(ls[t].mgr, ls[t].loc)
            /\ ls' = [ls EXCEPT ![t].pc = "dl_check"]
    /\ UNCHANGED <<protocols, protocolsLock, deleted, transports,
                 cfgVars, linkVars, trVars, adVars>>

\* del_listener_unicast: if lm.get_listeners().is_empty()
LsDelCheck(t) ==
    /\ ls[t].pc = "dl_check"
    /\ IF lms[ls[t].mgr].listeners = {}
       THEN ls' = [ls EXCEPT ![t].pc = "dlm"]
       ELSE ls' = [ls EXCEPT ![t] = Done(ls[t]), ![t].res = "ok"]
    /\ UNCHANGED <<protocols, protocolsLock, lms, deleted,
                 transports, cfgVars, linkVars, trVars, adVars>>

\* del_link_manager_unicast: zlock!(protocols).remove(protocol); the guard
\* lives to the end of the match, and lm.get_listeners() is what is drained
LsDelLinkManager(t) ==
    /\ ls[t].pc = "dlm"
    /\ protocolsLock = {}
    /\ LET p == Proto(ls[t].loc)
       IN IF p \in DOMAIN protocols
          THEN /\ protocols' = MapRemove(protocols, p)
               /\ deleted' = deleted \cup {protocols[p]}
               /\ protocolsLock' = {t}
               /\ ls' = [ls EXCEPT ![t].pc = "dlm_drain", ![t].mgr = protocols[p],
                                    ![t].drain = lms[protocols[p]].listeners]
          ELSE /\ ls' = [ls EXCEPT ![t] = Done(ls[t]), ![t].res = "err_no_manager"]
               /\ UNCHANGED <<protocols, deleted, protocolsLock>>
    /\ UNCHANGED <<lms, transports, cfgVars, linkVars, trVars, adVars>>

\* del_link_manager_unicast: let _ = lm.del_listener(&l).await, for one l
LsDrain(t, l) ==
    /\ ls[t].pc = "dlm_drain"
    /\ l \in ls[t].drain
    /\ lms' = WithoutListener(ls[t].mgr, l)
    /\ ls' = [ls EXCEPT ![t].drain = @ \ {l}]
    /\ UNCHANGED <<protocols, protocolsLock, deleted, transports,
                 cfgVars, linkVars, trVars, adVars>>

\* del_link_manager_unicast: Ok(()), the guard is dropped; del_listener: Ok(())
LsDelReturn(t) ==
    /\ ls[t].pc = "dlm_drain"
    /\ ls[t].drain = {}
    /\ protocolsLock' = {}
    /\ ls' = [ls EXCEPT ![t] = Done(ls[t]), ![t].res = "ok"]
    /\ UNCHANGED <<protocols, lms, deleted, transports,
                 cfgVars, linkVars, trVars, adVars>>

(***************************************************************************)
(* AdminSpace (adminspace.rs)                                              *)
(* A name is a sequence of symbols: "/" separates chunks, the other        *)
(* symbols stand for pieces of text that contain no "/".                   *)
(***************************************************************************)
\* format!("/@/router/{}", pid_str) and the two paths below it
RootPath == <<"/", "@", "/", "router", "/", "pid">>
RoutersPath == RootPath \o <<"/", "linkstate", "/", "routers">>
PeersPath == RootPath \o <<"/", "linkstate", "/", "peers">>

\* the handlers in the order AdminSpace::start inserts them
RegistrationOrder == <<RootPath, RoutersPath, PeersPath>>

\* the sequences that hold each element of sequence sq exactly once
Orders(sq) ==
    {o \in [1..Len(sq) -> {sq[i] : i \in 1..Len(sq)}] :
        \A i, j \in 1..Len(sq) : i # j => o[i] # o[j]}

Rids == 1..MaxRid
Qids == 1..MaxQueries

RName(n) == [kind |-> "RName", id |-> 0, name |-> n]
RId(id) == [kind |-> "RId", id |-> id, name |-> <<>>]
RIdWithSuffix(id, sfx) == [kind |-> "RIdWithSuffix", id |-> id, name |-> sfx]

\* the names and suffixes the router sends
KeyNames ==
    {RootPath, RootPath \o <<"/", "**">>, RootPath \o <<"/", "linkstate", "/", "*">>,
     <<"/", "other">>}
KeySuffixes == {<<"/", "**">>, <<"/", "linkstate", "/", "peers">>}
Keys ==
    {RName(n) : n \in KeyNames} \cup {RId(i) : i \in Rids}
    \cup {RIdWithSuffix(i, x) : i \in Rids, x \in KeySuffixes}

\* the keys the router declares as resources
ResourceKeys ==
    {RName(RootPath)} \cup {RId(i) : i \in Rids}
    \cup {RIdWithSuffix(i, <<"/", "**">>) : i \in Rids}

\* a resolution that knows no bare RId
reskey_to_string_norid(map, key) ==
    CASE key.kind = "RId" -> NONE
      [] key.kind = "RIdWithSuffix" ->
            IF key.id \in DOMAIN map THEN map[key.id] \o key.name ELSE NONE
      [] OTHER -> key.name

\* AdminSpace::reskey_to_string
reskey_to_string(map, key) ==
    CASE key.kind = "RId" ->
            IF key.id \in DOMAIN map THEN map[key.id] ELSE NONE
      [] key.kind = "RIdWithSuffix" ->
            IF key.id \in DOMAIN map THEN map[key.id] \o key.name ELSE NONE
      [] OTHER -> key.name

\* the chunks of a name, split at "/"
RECURSIVE SplitAcc(_, _, _)
SplitAcc(name, cur, acc) ==
    IF name = <<>> THEN Append(acc, cur)
    ELSE IF Head(name) = "/" THEN SplitAcc(Tail(name), <<>>, Append(acc, cur))
    ELSE SplitAcc(Tail(name), Append(cur, Head(name)), acc)

Chunks(name) ==
    LET c == SplitAcc(name, <<>>, <<>>)
    IN IF c[1] = <<>> THEN Tail(c) ELSE c

\* rname::intersect on chunks: "**" matches any number of chunks, "*" one chunk
RECURSIVE ChunksIntersect(_, _)
ChunksIntersect(a, b) ==
    IF a = <<>> THEN \A i \in 1..Len(b) : b[i] = <<"**">>
    ELSE IF b = <<>> THEN \A i \in 1..Len(a) : a[i] = <<"**">>
    ELSE IF Head(a) = <<"**">>
         THEN ChunksIntersect(Tail(a), b) \/ ChunksIntersect(a, Tail(b))
    ELSE IF Head(b) = <<"**">>
         THEN ChunksIntersect(a, Tail(b)) \/ ChunksIntersect(Tail(a), b)
    ELSE /\ (Head(a) = <<"*">> \/ Head(b) = <<"*">> \/ Head(a) = Head(b))
         /\ ChunksIntersect(Tail(a), Tail(b))

Intersect(n1, n2) == ChunksIntersect(Chunks(n1), Chunks(n2))

HandlerMatches_all(name, path) == TRUE

\* if rname::intersect(&name, path)
HandlerMatches(name, path) == Intersect(name, path)

\* the reply task takes the collected replies from the front
TakeReply(replies) == [msg |-> Head(replies), rest |-> Tail(replies)]

\* a qid no query was made with yet
QIdle == [pc |-> "idle", kind |-> NONE, name |-> NONE, i |-> 1, replies |-> <<>>]

InitAdmin ==
    /\ handlers = RegistrationOrder
    /\ mappings = EmptyMap
    /\ qs = [q \in Qids |-> QIdle]
    /\ out = [q \in Qids |-> <<>>]
    /\ otherTraced = FALSE

\* Primitives::resource
AdResource(rid, key) ==
    /\ LET r == reskey_to_string(mappings, key)
       IN IF r # NONE
          THEN /\ Len(r) <= MaxNameLen
               /\ mappings' = MapInsert(mappings, rid, r)
          ELSE UNCHANGED mappings
    /\ UNCHANGED <<handlers, qs, out, otherTraced,
                   transports, cfgVars, linkVars, trVars, lsVars>>

\* a query that returns at the None arm, with no reply task
AdQuery_return(q, key) ==
    /\ qs[q].pc = "idle"
    /\ qs' = [qs EXCEPT ![q].kind = key.kind,
                        ![q].name = reskey_to_string(mappings, key),
                        ![q].pc = IF reskey_to_string(mappings, key) = NONE
                                  THEN "done" ELSE "collect"]
    /\ UNCHANGED <<handlers, mappings, out, otherTraced,
                   transports, cfgVars, linkVars, trVars, lsVars>>

\* Primitives::query, up to the match on reskey_to_string(reskey); on None
\* the call logs, spawns the reply task and returns
AdQuery(q, key) ==
    /\ qs[q].pc = "idle"
    /\ qs' = [qs EXCEPT ![q].kind = key.kind,
                        ![q].name = reskey_to_string(mappings, key),
                        ![q].pc = IF reskey_to_string(mappings, key) = NONE
                                  THEN "reply" ELSE "collect"]
    /\ UNCHANGED <<handlers, mappings, out, otherTraced,
                   transports, cfgVars, linkVars, trVars, lsVars>>

\* an iteration that sends the reply of the handler from inside the query call
AdCollect_inline(q) ==
    /\ qs[q].pc = "collect"
    /\ qs[q].i <= Len(handlers)
    /\ qs' = [qs EXCEPT ![q].i = @ + 1]
    /\ out' = [out EXCEPT ![q] = IF HandlerMatches(qs[q].name, handlers[qs[q].i])
                                  THEN Append(@, [kind |-> "reply_data", qid |-> q,
                                                  path |-> handlers[qs[q].i]])
                                  ELSE @]
    /\ UNCHANGED <<handlers, mappings, otherTraced,
                   transports, cfgVars, linkVars, trVars, lsVars>>

\* one iteration of `for (path, handler) in &self.handlers`
AdCollect(q) ==
    /\ qs[q].pc = "collect"
    /\ qs[q].i <= Len(handlers)
    /\ qs' = [qs EXCEPT ![q].i = @ + 1,
                        ![q].replies = IF HandlerMatches(qs[q].name, handlers[qs[q].i])
                                       THEN Append(@, handlers[qs[q].i]) ELSE @]
    /\ UNCHANGED <<handlers, mappings, out, otherTraced,
                   transports, cfgVars, linkVars, trVars, lsVars>>

\* the loop is over: task::spawn of the reply task; query returns
AdSpawn(q) ==
    /\ qs[q].pc = "collect"
    /\ qs[q].i > Len(handlers)
    /\ qs' = [qs EXCEPT ![q].pc = "reply", ![q].i = 1]
    /\ UNCHANGED <<handlers, mappings, out, otherTraced,
                   transports, cfgVars, linkVars, trVars, lsVars>>

\* reply task: primitives.reply_data(qid, EVAL, replier_id, reskey, ..).await
AdReplyData(q) ==
    /\ qs[q].pc = "reply"
    /\ qs[q].replies # <<>>
    /\ LET t == TakeReply(qs[q].replies)
       IN /\ out' = [out EXCEPT ![q] = Append(@, [kind |-> "reply_data", qid |-> q,
                                                   path |-> t.msg])]
          /\ qs' = [qs EXCEPT ![q].replies = t.rest]
    /\ UNCHANGED <<handlers, mappings, otherTraced,
                   transports, cfgVars, linkVars, trVars, lsVars>>

\* reply task: primitives.reply_final(qid).await
AdReplyFinal(q) ==
    /\ qs[q].pc = "reply"
    /\ qs[q].replies = <<>>
    /\ out' = [out EXCEPT ![q] = Append(@, [kind |-> "reply_final", qid |-> q,
                                             path |-> <<>>])]
    /\ qs' = [qs EXCEPT ![q].pc = "done"]
    /\ UNCHANGED <<handlers, mappings, otherTraced,
                   transports, cfgVars, linkVars, trVars, lsVars>>

\* the primitives operations of the admin space other than resource and query
OtherPrimitives ==
    {"forget_resource", "publisher", "forget_publisher", "subscriber",
     "forget_subscriber", "queryable", "forget_queryable", "data", "reply_data",
     "reply_final", "pull", "close"}

\* a forget_resource that takes the entry of some rid out of the mapping
AdOther_forgets(op) ==
    /\ op \in OtherPrimitives
    /\ otherTraced' = TRUE
    /\ IF op = "forget_resource" /\ DOMAIN mappings # {}
       THEN \E rid \in DOMAIN mappings : mappings' = MapRemove(mappings, rid)
       ELSE UNCHANGED mappings
    /\ UNCHANGED <<handlers, qs, out,
                   transports, cfgVars, linkVars, trVars, lsVars>>

\* forget_resource, publisher, ..., close: trace!(..) and nothing else
AdOther(op) ==
    /\ op \in OtherPrimitives
    /\ otherTraced' = TRUE
    /\ UNCHANGED <<handlers, mappings, qs, out,
                   transports, cfgVars, linkVars, trVars, lsVars>>

(***************************************************************************)
(* init_transport_unicast as an operation of the manager                   *)
(***************************************************************************)
InitTransport(cfg) ==
    /\ LET r == init_transport_unicast(transports, cfg, max_transports)
       IN /\ transports' = r.table
          /\ itLast' = r.res
    /\ UNCHANGED <<dt, cfgVars, linkVars, lsVars, adVars>>

(***************************************************************************)
(* del_transport_unicast (manager.rs 415-428)                              *)
(***************************************************************************)
\* a call that drops the result of the remove and returns Ok
DelTransportRemove_okabsent(t, p) ==
    /\ dt[t].pc \in {"idle", "done_ok", "done_err"}
    /\ transports' = IF p \in DOMAIN transports THEN MapRemove(transports, p)
                      ELSE transports
    /\ dt' = [dt EXCEPT ![t] = [pc |-> IF p \in DOMAIN transports THEN "closing"
                                        ELSE "done_ok",
                                 peer |-> p, removed |-> p \in DOMAIN transports,
                                 i |-> 1, calls |-> <<>>]]
    /\ UNCHANGED <<itLast, cfgVars, linkVars, lsVars, adVars>>

\* a call that never gets past the `?` when nothing was removed
DelTransportRemove_noqmark(t, p) ==
    /\ dt[t].pc \in {"idle", "done_ok", "done_err"}
    /\ transports' = IF p \in DOMAIN transports THEN MapRemove(transports, p)
                      ELSE transports
    /\ dt' = [dt EXCEPT ![t] = [pc |-> "closing", peer |-> p,
                                 removed |-> p \in DOMAIN transports,
                                 i |-> 1, calls |-> <<>>]]
    /\ UNCHANGED <<itLast, cfgVars, linkVars, lsVars, adVars>>

\* zlock!(transports).remove(peer).ok_or_else(..)?
DelTransportRemove(t, p) ==
    /\ dt[t].pc \in {"idle", "done_ok", "done_err"}
    /\ IF p \in DOMAIN transports
       THEN /\ transports' = MapRemove(transports, p)
            /\ dt' = [dt EXCEPT ![t] = [pc |-> "closing", peer |-> p, removed |-> TRUE,
                                        i |-> 1, calls |-> <<>>]]
       ELSE /\ dt' = [dt EXCEPT ![t] = [pc |-> "done_err", peer |-> p, removed |-> FALSE,
                                        i |-> 1, calls |-> <<>>]]
            /\ UNCHANGED transports
    /\ UNCHANGED <<itLast, cfgVars, linkVars, lsVars, adVars>>

\* one iteration of the loop: pa.handle_close(peer).await
DelTransportHandleClose(t) ==
    /\ dt[t].pc = "closing"
    /\ dt[t].i <= Len(peer_authenticator)
    /\ dt' = [dt EXCEPT ![t].calls = Append(@, <<peer_authenticator[dt[t].i], dt[t].peer>>),
                        ![t].i = @ + 1]
    /\ UNCHANGED <<transports, itLast, cfgVars, linkVars, lsVars, adVars>>

\* the loop is over: Ok(())
DelTransportReturn(t) ==
    /\ dt[t].pc = "closing"
    /\ dt[t].i > Len(peer_authenticator)
    /\ dt' = [dt EXCEPT ![t].pc = "done_ok", ![t].i = 1]
    /\ UNCHANGED <<transports, itLast, cfgVars, linkVars, lsVars, adVars>>

(***************************************************************************)
(* TransportManagerConfigBuilderUnicast (manager.rs 57-176)                *)
(* A scalar field holds the library default or a number; a property value  *)
(* is a string, written as the sequence of its characters.                 *)
(***************************************************************************)
Default == [dflt |-> TRUE, v |-> 0]
Val(n) == [dflt |-> FALSE, v |-> n]

\* TransportManagerConfigBuilderUnicast::default()
DefaultBuilder ==
    [lease |-> Default, keep_alive |-> Default, open_timeout |-> Default,
     open_pending |-> Default, max_transports |-> Default, max_links |-> Default,
     peer_authenticator |-> <<"dummy">>, link_authenticator |-> <<"dummy">>]

\* the keys from_properties reads, in the order it reads them, with the field
\* each one sets
KeyOrder ==
    <<[key |-> "link_lease", field |-> "lease"],
      [key |-> "link_keep_alive", field |-> "keep_alive"],
      [key |-> "open_timeout", field |-> "open_timeout"],
      [key |-> "open_incoming_pending", field |-> "open_pending"],
      [key |-> "max_sessions", field |-> "max_transports"],
      [key |-> "max_links", field |-> "max_links"]>>
KnownKeys == {KeyOrder[i].key : i \in 1..Len(KeyOrder)}
\* a key the authenticators read, and a key nobody reads
AuthKey == "user"
UnknownKey == "colour"
BagKeys == KnownKeys \cup {AuthKey, UnknownKey}

BagValues == {<<"7">>, <<"0", "7">>, <<"x">>}
Bags ==
    UNION {[D -> BagValues] : D \in {S \in SUBSET BagKeys : Cardinality(S) <= MaxBagKeys}}

Digit(c) ==
    CASE c = "0" -> 0 [] c = "1" -> 1 [] c = "2" -> 2 [] c = "3" -> 3 [] c = "4" -> 4
      [] c = "5" -> 5 [] c = "6" -> 6 [] c = "7" -> 7 [] c = "8" -> 8 [] c = "9" -> 9
      [] OTHER -> -1

\* $str.parse() into an unsigned integer: -1 stands for the parse error
RECURSIVE ParseAcc(_, _)
ParseAcc(str, acc) ==
    IF str = <<>> THEN acc
    ELSE IF Digit(Head(str)) < 0 THEN -1
    ELSE ParseAcc(Tail(str), acc * 10 + Digit(Head(str)))

zparse(str) == IF str = <<>> THEN -1 ELSE ParseAcc(str, 0)

\* PeerAuthenticator::from_properties / LinkAuthenticator::from_properties:
\* the chain the bag configures
AuthFromProperties(bag) == IF AuthKey \in DOMAIN bag THEN <<"usrpwd">> ELSE <<>>

\* the recognised keys of the bag whose value does not parse, in reading order
BadKeys(bag) ==
    SelectSeq(KeyOrder, LAMBDA e : e.key \in DOMAIN bag /\ zparse(bag[e.key]) < 0)

\* a from_properties that adds the configured authenticators to the chains
from_properties_append(b, bag) ==
    IF BadKeys(bag) # <<>>
    THEN [res |-> "err", key |-> BadKeys(bag)[1].key, builder |-> b]
    ELSE [res |-> "ok", key |-> NONE,
          builder |->
            [f \in DOMAIN b |->
               IF f = "peer_authenticator" \/ f = "link_authenticator"
               THEN b[f] \o AuthFromProperties(bag)
               ELSE IF \E i \in 1..Len(KeyOrder) :
                          KeyOrder[i].field = f /\ KeyOrder[i].key \in DOMAIN bag
               THEN LET i == CHOOSE i \in 1..Len(KeyOrder) : KeyOrder[i].field = f
                    IN Val(zparse(bag[KeyOrder[i].key]))
               ELSE b[f]]]

\* TransportManagerConfigBuilderUnicast::from_properties
from_properties(b, bag) ==
    IF BadKeys(bag) # <<>>
    THEN [res |-> "err", key |-> BadKeys(bag)[1].key, builder |-> b]
    ELSE [res |-> "ok", key |-> NONE,
          builder |->
            [f \in DOMAIN b |->
               IF f = "peer_authenticator" \/ f = "link_authenticator"
               THEN AuthFromProperties(bag)
               ELSE IF \E i \in 1..Len(KeyOrder) :
                          KeyOrder[i].field = f /\ KeyOrder[i].key \in DOMAIN bag
               THEN LET i == CHOOSE i \in 1..Len(KeyOrder) : KeyOrder[i].field = f
                    IN Val(zparse(bag[KeyOrder[i].key]))
               ELSE b[f]]]

InitBuilder ==
    /\ cb = DefaultBuilder
    /\ cbBag = [k \in {} |-> <<>>]
    /\ cbRes = "none"
    /\ cbCalls = 0

\* the setters open_pending(n) and max_transports(n)
CbSetLimit(field, n) ==
    /\ cbRes # "err"
    /\ cb' = [cb EXCEPT ![field] = Val(n)]
    /\ cbCalls' = 0
    /\ UNCHANGED <<cbBag, cbRes, open_pending, max_transports, peer_authenticator,
                   linkVars, transports, trVars, lsVars, adVars>>

\* the setters peer_authenticator(chain) and link_authenticator(chain)
CbSetChain(field, chain) ==
    /\ cbRes # "err"
    /\ cb' = [cb EXCEPT ![field] = chain]
    /\ cbCalls' = 0
    /\ UNCHANGED <<cbBag, cbRes, open_pending, max_transports, peer_authenticator,
                   linkVars, transports, trVars, lsVars, adVars>>

\* builder.from_properties(&bag).await; an Err consumes the builder
CbFromProperties ==
    /\ cbRes # "err"
    /\ cbCalls < MaxApply
    /\ LET r == from_properties(cb, cbBag)
       IN /\ cb' = r.builder
          /\ cbRes' = r.res
    /\ cbCalls' = cbCalls + 1
    /\ UNCHANGED <<cbBag, open_pending, max_transports, peer_authenticator,
                   linkVars, transports, trVars, lsVars, adVars>>

(***************************************************************************)
(* Specifications: the state after construction, and one specification per *)
(* part of the program; the parts a specification leaves out stay as       *)
(* constructed.                                                            *)
(***************************************************************************)
InitLinks ==
    /\ closers = [l \in Links |-> {}]
    /\ la_calls = [l \in Links |-> <<>>]
    /\ la_seen = [l \in Links |-> {}]
    /\ incoming = EmptyMap
    /\ incomingLock = {}
    /\ hnl = [l \in Links |-> "start"]
    /\ la_i = [l \in Links |-> 1]
    /\ peer_id = [l \in Links |-> NONE]
    /\ closed = {}

InitTransports ==
    /\ transports = EmptyMap
    /\ itLast = NONE
    /\ dt = [t \in DelTasks |-> TrIdle]

InitLink ==
    /\ open_pending \in 0..MaxLimit
    /\ max_transports = MaxLimit
    /\ peer_authenticator = <<1>>
    /\ InitBuilder
    /\ InitLinks /\ InitTransports /\ InitRegistry /\ InitAdmin

NextLink ==
    \E l \in Links :
        \/ HnlAdmit(l)
        \/ HnlRefuseClose(l)
        \/ \E pid \in Peers \cup {NONE} : HnlAuthOk(l, pid)
        \/ HnlAuthErr(l)
        \/ HnlAmbiguousClose(l)
        \/ HnlAmbiguousRemove(l)
        \/ HnlSpawn(l)
        \/ \E cfg \in AcceptConfigs : AcceptOk(l, cfg)
        \/ AcceptFail(l)
        \/ AcceptTimeout(l)
        \/ TaskTimeoutClose(l)
        \/ TaskRemove(l)

SpecLink == InitLink /\ [][NextLink]_vars

InitTr ==
    /\ open_pending = MaxLimit
    /\ max_transports \in 1..MaxLimit
    /\ peer_authenticator \in PeerAuthChains
    /\ InitBuilder
    /\ InitLinks /\ InitTransports /\ InitRegistry /\ InitAdmin

NextTransport ==
    \/ \E cfg \in Configs : InitTransport(cfg)
    \/ \E t \in DelTasks, p \in Peers : DelTransportRemove(t, p)
    \/ \E t \in DelTasks : DelTransportHandleClose(t)
    \/ \E t \in DelTasks : DelTransportReturn(t)

SpecTransport == InitTr /\ [][NextTransport]_vars

InitListener ==
    /\ open_pending = MaxLimit
    /\ max_transports = MaxLimit
    /\ peer_authenticator = <<1>>
    /\ InitBuilder
    /\ InitLinks /\ InitTransports /\ InitRegistry /\ InitAdmin

NextListener ==
    \E t \in LsTasks :
        \/ \E op \in {"add", "del", "open"}, loc \in Locators : LsCall(t, op, loc)
        \/ LsGonGet(t)
        \/ LsGonNew(t)
        \/ \E io_ok \in BOOLEAN : LsNewListener(t, io_ok)
        \/ LsOpenFail(t)
        \/ \E cfg \in OpenConfigs : LsOpenOk(t, cfg)
        \/ LsDelGet(t)
        \/ LsDelListener(t)
        \/ LsDelCheck(t)
        \/ LsDelLinkManager(t)
        \/ \E l \in Locators : LsDrain(t, l)
        \/ LsDelReturn(t)

SpecListener == InitListener /\ [][NextListener]_vars

\* a step of the call that caller t has in progress
LsRun(t) ==
    \/ LsGonGet(t)
    \/ LsGonNew(t)
    \/ \E io_ok \in BOOLEAN : LsNewListener(t, io_ok)
    \/ LsOpenFail(t)
    \/ \E cfg \in OpenConfigs : LsOpenOk(t, cfg)
    \/ LsDelGet(t)
    \/ LsDelListener(t)
    \/ LsDelCheck(t)
    \/ LsDelLinkManager(t)
    \/ \E l \in Locators : LsDrain(t, l)
    \/ LsDelReturn(t)

\* the executor keeps running every call that can take a step
SpecListenerFair == SpecListener /\ \A t \in LsTasks : WF_vars(LsRun(t))

\* the callers use add_listener_unicast and del_listener_unicast only
NextAddDel ==
    \E t \in LsTasks :
        \/ \E op \in {"add", "del"}, loc \in Locators : LsCall(t, op, loc)
        \/ LsGonGet(t)
        \/ LsGonNew(t)
        \/ \E io_ok \in BOOLEAN : LsNewListener(t, io_ok)
        \/ LsDelGet(t)
        \/ LsDelListener(t)
        \/ LsDelCheck(t)
        \/ LsDelLinkManager(t)
        \/ \E l \in Locators : LsDrain(t, l)
        \/ LsDelReturn(t)

SpecAddDel == InitListener /\ [][NextAddDel]_vars

\* the iteration order of the handlers HashMap is any order of its keys
InitAd ==
    /\ open_pending = MaxLimit
    /\ max_transports = MaxLimit
    /\ peer_authenticator = <<1>>
    /\ InitBuilder
    /\ InitLinks /\ InitTransports /\ InitRegistry
    /\ handlers \in Orders(RegistrationOrder)
    /\ mappings = EmptyMap
    /\ qs = [q \in Qids |-> QIdle]
    /\ out = [q \in Qids |-> <<>>]
    /\ otherTraced = FALSE

NextAdmin ==
    \/ \E rid \in Rids, key \in ResourceKeys : AdResource(rid, key)
    \/ \E q \in Qids, key \in Keys : AdQuery(q, key)
    \/ \E q \in Qids : AdCollect(q)
    \/ \E q \in Qids : AdSpawn(q)
    \/ \E q \in Qids : AdReplyData(q)
    \/ \E q \in Qids : AdReplyFinal(q)

SpecAdmin == InitAd /\ [][NextAdmin]_vars

\* every primitives operation of the admin space
InitPrimitives ==
    /\ open_pending = MaxLimit
    /\ max_transports = MaxLimit
    /\ peer_authenticator = <<1>>
    /\ InitBuilder
    /\ InitLinks /\ InitTransports /\ InitRegistry /\ InitAdmin

NextPrimitives ==
    \/ NextAdmin
    \/ \E op \in OtherPrimitives : AdOther(op)

SpecPrimitives == InitPrimitives /\ [][NextPrimitives]_vars

\* a builder, its setters and from_properties with one bag
InitCb ==
    /\ open_pending = MaxLimit
    /\ max_transports = MaxLimit
    /\ peer_authenticator = <<1>>
    /\ InitLinks /\ InitTransports /\ InitRegistry /\ InitAdmin
    /\ cb = DefaultBuilder
    /\ cbBag \in Bags
    /\ cbRes = "none"
    /\ cbCalls = 0

NextBuilder ==
    \/ \E field \in {"open_pending", "max_transports"} : CbSetLimit(field, 3)
    \/ \E field \in {"peer_authenticator", "link_authenticator"},
          chain \in {<<>>, <<"a">>} : CbSetChain(field, chain)
    \/ CbFromProperties

SpecBuilder == InitCb /\ [][NextBuilder]_vars

(***************************************************************************)
(* Properties                                                              *)
(***************************************************************************)

\* C1: in every reachable state the pending incoming table holds at most
\* open_pending entries (with open_pending = 0 no link is ever inserted).
C1_PendingBounded == MapLen(incoming) <= open_pending

\* C1 witness: the table is full, at a positive limit, and a further
\* invocation has found it full and is about to close its link.
C1_Witness ==
    /\ open_pending >= 1
    /\ MapLen(incoming) = open_pending
    /\ \E l \in Links : hnl[l] = "refuse_close"

\* C2: an invocation that inserted its link has removed the entry by the time
\* it and its accept task are over, whatever the exit path (accept success,
\* inner failure, timeout, ambiguous peer id, link-authenticator error).
C2_EntryRemovedOnExit == \A l \in Links : hnl[l] \in HnlDone => l \notin DOMAIN incoming

\* C3: when an invocation and its accept task are over, either a transport was
\* established, or the pending entry is gone and the link is closed.
C3_EstablishedOrReleased ==
    \A l \in Links :
        hnl[l] \in HnlDone =>
            \/ hnl[l] = "done_accepted"
            \/ (l \notin DOMAIN incoming /\ l \in closed)

\* the stored transport and the configuration differ in a compared field
Differs(transport, cfg) ==
    \/ transport.whatami # cfg.whatami
    \/ transport.sn_resolution # cfg.sn_resolution
    \/ transport.is_shm # cfg.is_shm

\* C4: init_transport for a peer already in the table, with a role,
\* sn_resolution or is_shm that differs from the stored transport, fails and
\* leaves the transport table unchanged.
C4_MismatchFails ==
    [][\A cfg \in Configs :
          (/\ InitTransport(cfg)
           /\ cfg.peer \in DOMAIN transports
           /\ Differs(transports[cfg.peer], cfg))
          => (/\ itLast' \in {"err_whatami", "err_sn_resolution", "err_is_shm"}
              /\ transports' = transports)]_vars

\* C4 witness: a call was refused for its is_shm alone, the last of the three
\* comparisons, and the stored entry is still there.
C4_Witness ==
    /\ itLast = "err_is_shm"
    /\ \E p \in DOMAIN transports : transports[p].is_shm = FALSE

\* C5: the transport table never holds more than max_transports entries, and
\* init_transport for an absent peer on a full table fails and leaves the table
\* unchanged.
C5_TableBounded ==
    /\ [](MapLen(transports) <= max_transports)
    /\ [][\A cfg \in Configs :
            (/\ InitTransport(cfg)
             /\ cfg.peer \notin DOMAIN transports
             /\ MapLen(transports) >= max_transports)
            => (itLast' = "err_max_transports" /\ transports' = transports)]_vars

\* C5 witness: the table is full and a call for a further peer was denied.
C5_Witness ==
    /\ itLast = "err_max_transports"
    /\ MapLen(transports) = max_transports
    /\ DOMAIN transports # Peers

\* no add_listener / del_listener / open_transport call is in progress
Quiescent == \A t \in LsTasks : ls[t].pc \in {"idle", "done"}

\* the listeners registered for protocol p, on any manager made for it
ListenersOf(p) == UNION {lms[m].listeners : m \in {x \in DOMAIN lms : lms[x].proto = p}}

\* C6: after any sequence of add_listener and del_listener calls, the registry
\* holds a factory for protocol p if and only if a listener for p is registered.
C6_FactoryIffListener ==
    Quiescent =>
        \A p \in Protocols : (p \in DOMAIN protocols) <=> (ListenersOf(p) # {})

\* a caller to which get_or_new_link_manager has returned a manager
HoldsManager(t) == ls[t].pc \in {"new_listener", "new_link"}

\* C7: a factory is constructed for p only when none is registered, a
\* registered factory is never replaced, every caller of
\* get_or_new_link_manager(p) holds the registered factory as long as it was
\* not explicitly deleted, and new_link_manager(p) on a registered p fails and
\* leaves the registry unchanged.
C7_OneFactoryPerProtocol ==
    /\ [](\A t \in LsTasks :
            (HoldsManager(t) /\ ls[t].mgr \notin deleted) =>
                /\ Proto(ls[t].loc) \in DOMAIN protocols
                /\ protocols[Proto(ls[t].loc)] = ls[t].mgr)
    /\ [][/\ \A p \in Protocols :
               (p \in DOMAIN protocols /\ p \in DOMAIN protocols') =>
                   protocols'[p] = protocols[p]
           /\ (Len(lms') > Len(lms) => lms'[Len(lms')].proto \notin DOMAIN protocols)
           /\ \A t \in LsTasks :
               (/\ ls[t].pc = "gon_new"
                /\ Proto(ls[t].loc) \in DOMAIN protocols
                /\ ls'[t] # ls[t])
               => (/\ protocols' = protocols
                   /\ lms' = lms
                   /\ ls'[t].nlm = "already_exists"
                   /\ ls'[t].pc = "gon_get")]_vars

\* C7 witness: two concurrent callers hold the same factory; one made it, the
\* other lost the race in new_link_manager and got it on its retry.
C7_Witness ==
    \E t1, t2 \in LsTasks :
        /\ t1 # t2
        /\ HoldsManager(t1) /\ HoldsManager(t2)
        /\ ls[t1].mgr = ls[t2].mgr
        /\ ls[t1].nlm = "already_exists"
        /\ ls[t2].nlm = "ok"

\* the handle_close calls a successful del_transport(p) makes, in order
ExpectedCalls(p, n) == [i \in 1..n |-> <<peer_authenticator[i], p>>]

\* C8: a successful del_transport(p) calls handle_close(p) on every configured
\* peer authenticator exactly once, in configuration order, and only after the
\* entry of p was removed from the transport table.
C8_HandleCloseAfterRemoval ==
    \A t \in DelTasks :
        /\ dt[t].calls # <<>> => dt[t].removed
        /\ dt[t].pc = "closing" => dt[t].calls = ExpectedCalls(dt[t].peer, dt[t].i - 1)
        /\ dt[t].pc = "done_ok" =>
              /\ dt[t].removed
              /\ dt[t].calls = ExpectedCalls(dt[t].peer, Len(peer_authenticator))
        /\ dt[t].pc = "done_err" => dt[t].calls = <<>>

\* C8 witness: a del_transport returned Ok after calling two authenticators.
C8_Witness ==
    \E t \in DelTasks :
        /\ dt[t].pc = "done_ok"
        /\ Len(dt[t].calls) >= 2
        /\ dt[t].peer \notin DOMAIN transports

\* the reply_data messages among those emitted for qid q, in emission order
DataOf(q) == SelectSeq(out[q], LAMBDA m : m.kind = "reply_data")

\* the registered handler paths
HandlerPaths == {RegistrationOrder[i] : i \in 1..Len(RegistrationOrder)}

\* the query of qid q resolved its key to a name and its reply task is over
Answered(q) == qs[q].pc = "done" /\ qs[q].name # NONE

\* C9: every message emitted for a query carries its qid; a reply_final is
\* the last message emitted for its qid, so no reply_data follows it and there
\* is one at most; and once the reply task of a query with a resolved name is
\* over, the messages are one reply_data per registered handler path that
\* intersects the name (none for a path that does not) and then the
\* reply_final.
C9_OneReplyPerIntersectingHandler ==
    \A q \in Qids :
        /\ \A k \in 1..Len(out[q]) :
              /\ out[q][k].qid = q
              /\ out[q][k].kind = "reply_final" => (k = Len(out[q]) /\ qs[q].pc = "done")
              /\ out[q][k].kind = "reply_data" => out[q][k].path \in HandlerPaths
        /\ qs[q].pc = "done" =>
              (out[q] # <<>> /\ out[q][Len(out[q])].kind = "reply_final")
        /\ Answered(q) =>
              \A path \in HandlerPaths :
                  Cardinality({k \in 1..Len(DataOf(q)) : DataOf(q)[k].path = path})
                      = IF Intersect(qs[q].name, path) THEN 1 ELSE 0

\* C9 witness: an answered query whose name intersects two of the three
\* handler paths: two reply_data and the reply_final were emitted for it.
C9_Witness ==
    \E q \in Qids :
        /\ Answered(q)
        /\ ~Intersect(qs[q].name, RootPath)
        /\ Len(DataOf(q)) = 2
        /\ Len(out[q]) = 3

\* the paths of sequence sq that intersect name, in the order of sq
Intersecting(sq, name) == SelectSeq(sq, LAMBDA path : Intersect(name, path))

\* C10: the reply_data of an answered query come in handler-registration
\* order (root, linkstate/routers, linkstate/peers) restricted to the
\* intersecting handlers, and the single reply_final follows them.
C10_RegistrationOrder ==
    \A q \in Qids :
        Answered(q) =>
            /\ [k \in 1..Len(DataOf(q)) |-> DataOf(q)[k].path]
                   = Intersecting(RegistrationOrder, qs[q].name)
            /\ out[q][Len(out[q])].kind = "reply_final"

\* the query of qid q was made and its key did not resolve to a name
Unresolved(q) == qs[q].pc # "idle" /\ qs[q].name = NONE

\* C11 (as stated): for a query whose key cannot be resolved the admin space
\* emits neither reply_data nor reply_final.
C11_NoReplyWhenUnresolved == \A q \in Qids : Unresolved(q) => out[q] = <<>>

\* C11 (amended): for a query whose key cannot be resolved the admin space
\* emits no reply_data, and its reply task emits exactly one reply_final.
C11_OnlyFinalWhenUnresolved ==
    \A q \in Qids :
        Unresolved(q) =>
            /\ DataOf(q) = <<>>
            /\ Len(out[q]) <= 1
            /\ qs[q].pc = "done" =>
                  out[q] = <<[kind |-> "reply_final", qid |-> q, path |-> <<>>]>>

\* C11 witness: a query keyed by an id that has no mapping was answered with
\* a reply_final alone.
C11_Witness ==
    \E q \in Qids :
        /\ Unresolved(q)
        /\ qs[q].kind \in {"RId", "RIdWithSuffix"}
        /\ qs[q].pc = "done"
        /\ Len(out[q]) = 1

\* C12: when accept_link did not complete within open_timeout, the accept task
\* first closes the link and then removes the pending entry: the entry is still
\* in the table when the link gets closed, and once the task is over the link
\* is closed (by the task) and the table no longer holds it.
C12_TimeoutClosesThenRemoves ==
    \A l \in Links :
        /\ hnl[l] = "timeout" =>
              (l \in DOMAIN incoming /\ "accept_task" \notin closers[l])
        /\ hnl[l] = "timeout_closed" =>
              (l \in DOMAIN incoming /\ l \in closed /\ "accept_task" \in closers[l])
        /\ hnl[l] = "done_timeout" =>
              (l \notin DOMAIN incoming /\ l \in closed /\ closers[l] = {"accept_task"})

\* C12 witness: an accept task that timed out is over: its link is closed and
\* gone from the pending table, while another link is still pending.
C12_Witness ==
    \E l \in Links :
        /\ hnl[l] = "done_timeout"
        /\ l \in closed
        /\ l \notin DOMAIN incoming
        /\ MapLen(incoming) >= 1

\* C13: an invocation that finds |pending| >= open_pending closes the link and
\* does nothing else: its steps leave the pending table and the transport table
\* as they are, no link authenticator is called for the link, and the
\* invocation ends there, with no accept task.
C13_RefusedOnlyCloses ==
    /\ [](\A l \in Links :
            /\ hnl[l] \in {"refuse_close", "done_refused"} =>
                  (l \notin DOMAIN incoming /\ la_calls[l] = <<>>)
            /\ hnl[l] = "done_refused" =>
                  (l \in closed /\ closers[l] = {"handle_new_link"}))
    /\ [][\A l \in Links :
            /\ (/\ hnl[l] = "start"
                /\ hnl'[l] # "start"
                /\ MapLen(incoming) >= open_pending)
               => (/\ hnl'[l] = "refuse_close"
                   /\ incoming' = incoming
                   /\ transports' = transports
                   /\ closed' = closed)
            /\ (hnl[l] = "refuse_close" /\ hnl'[l] # "refuse_close")
               => (/\ hnl'[l] = "done_refused"
                   /\ incoming' = incoming
                   /\ transports' = transports
                   /\ closed' = closed \cup {l})
            /\ hnl[l] = "done_refused" => hnl'[l] = "done_refused"]_vars

\* C13 witness: a link was refused and closed at a positive limit, while the
\* table is full of other links.
C13_Witness ==
    \E l \in Links :
        /\ hnl[l] = "done_refused"
        /\ l \in closed
        /\ open_pending >= 1
        /\ MapLen(incoming) = open_pending

\* link l has an authenticator call that returned an error
AuthFailed(l) == \E k \in 1..Len(la_calls[l]) : ~la_calls[l][k].ok

\* C19: the link authenticators of an invocation are called one at a time in
\* configured order, the next one only when the previous one has returned Ok;
\* an error ends the calls: no later authenticator is called, no accept task
\* is spawned and handle_new_link does not close the link.
C19_AuthenticatorsInOrder ==
    \A l \in Links :
        /\ Len(la_calls[l]) <= NumLinkAuth
        /\ \A k \in 1..Len(la_calls[l]) :
              /\ la_calls[l][k].la = k
              /\ ~la_calls[l][k].ok => k = Len(la_calls[l])
        /\ AuthFailed(l) =>
              /\ hnl[l] = "done_auth_err"
              /\ "handle_new_link" \notin closers[l]
              /\ "accept_task" \notin closers[l]
        /\ hnl[l] \in {"accept", "accepted", "failed", "timeout", "timeout_closed"} =>
              Len(la_calls[l]) = NumLinkAuth

\* C19 witness: the second authenticator of a link returned an error after
\* the first returned Ok; the invocation is over and the entry is still pending.
C19_Witness ==
    \E l \in Links :
        /\ hnl[l] = "done_auth_err"
        /\ Len(la_calls[l]) = 2
        /\ la_calls[l][1].ok
        /\ ~la_calls[l][2].ok

\* the ambiguous-peer-id exit of handle_new_link
HnlAmbiguous == {"ambiguous_close", "ambiguous_remove", "done_ambiguous"}

\* C20: when two link authenticators return Some with different peer ids the
\* invocation closes the link, removes the pending entry and spawns no accept
\* task; otherwise the accept task is spawned with the common Some value as
\* peer_id, or None when every authenticator returned None.
C20_AmbiguousPeerId ==
    \A l \in Links :
        /\ Cardinality(la_seen[l]) >= 2 <=> hnl[l] \in HnlAmbiguous
        /\ hnl[l] \in {"ambiguous_remove", "done_ambiguous"} =>
              (l \in closed /\ closers[l] = {"handle_new_link"})
        /\ hnl[l] = "done_ambiguous" => l \notin DOMAIN incoming
        /\ hnl[l] = "accept" =>
              /\ Len(la_calls[l]) = NumLinkAuth
              /\ \A k \in 1..NumLinkAuth : la_calls[l][k].ok
              /\ peer_id[l] = IF la_seen[l] = {} THEN NONE
                              ELSE CHOOSE id \in la_seen[l] : TRUE

\* C20 witness: one link went out through the ambiguous exit, and the accept
\* task of another was spawned with the peer id its authenticators agreed on.
C20_Witness ==
    /\ \E l \in Links : hnl[l] = "done_ambiguous" /\ l \in closed
    /\ \E l \in Links : hnl[l] = "accept" /\ peer_id[l] # NONE

\* C15: del_transport(p) for a peer p that is not in the transport table
\* fails, leaves the transport table as it is and calls handle_close on no
\* peer authenticator.
C15_DelAbsentFails ==
    /\ [](\A t \in DelTasks :
            dt[t].pc = "done_err" => (~dt[t].removed /\ dt[t].calls = <<>>))
    /\ [][\A t \in DelTasks, p \in Peers :
            (/\ dt[t].pc \in {"idle", "done_ok", "done_err"}
             /\ dt'[t] # dt[t]
             /\ dt'[t].peer = p
             /\ p \notin DOMAIN transports)
            => (/\ dt'[t].pc = "done_err"
                /\ dt'[t].calls = <<>>
                /\ transports' = transports)]_vars

\* C15 witness: a del_transport of an absent peer has failed while the table
\* holds the transport of another peer.
C15_Witness ==
    \E t \in DelTasks :
        /\ dt[t].pc = "done_err"
        /\ dt[t].peer \notin DOMAIN transports
        /\ MapLen(transports) >= 1

\* the scalar fields of the builder
ScalarFields == {KeyOrder[i].field : i \in 1..Len(KeyOrder)}
\* the key from_properties reads a scalar field from
KeyOfField(f) == KeyOrder[CHOOSE i \in 1..Len(KeyOrder) : KeyOrder[i].field = f].key
\* this step is a from_properties call that returned Ok
FromPropertiesOk == cbCalls' = cbCalls + 1 /\ cbRes' = "ok"

\* C16 (as stated): applying from_properties a second time with the same bag
\* leaves the builder as the first application left it, and a call with a
\* bag of only unknown keys leaves the whole builder, both authenticator
\* chains included, equal to the builder before the call.
C16_UnknownKeysKeepBuilder ==
    [][FromPropertiesOk =>
          /\ cbCalls >= 1 => cb' = cb
          /\ (DOMAIN cbBag # {} /\ DOMAIN cbBag \subseteq {UnknownKey}) => cb' = cb]_vars

\* C16 (amended): applying from_properties a second time with the same bag
\* leaves the builder as the first application left it; a scalar field whose
\* key is not in the bag keeps its value, so unknown keys alter none of the
\* six scalar fields; both authenticator chains are always replaced by the
\* chains the authenticators build from the bag, whatever they held before.
C16_IdempotentScalarsKept ==
    [][FromPropertiesOk =>
          /\ cbCalls >= 1 => cb' = cb
          /\ \A f \in ScalarFields :
                IF KeyOfField(f) \in DOMAIN cbBag
                THEN cb'[f] = Val(zparse(cbBag[KeyOfField(f)]))
                ELSE cb'[f] = cb[f]
          /\ cb'.peer_authenticator = AuthFromProperties(cbBag)
          /\ cb'.link_authenticator = AuthFromProperties(cbBag)]_vars

\* from_properties was applied twice in a row with a bag of one unknown key,
\* on a builder whose open_pending had been set
C16_Witness ==
    /\ cbCalls >= 2
    /\ cbRes = "ok"
    /\ DOMAIN cbBag = {UnknownKey}
    /\ ~cb.open_pending.dflt
    /\ cb.peer_authenticator = <<>>

\* the name a key stands for under a mapping, NONE when its id has no mapping
NameOf(map, key) ==
    IF key.kind = "RName" THEN key.name
    ELSE IF key.id \notin DOMAIN map THEN NONE
    ELSE IF key.kind = "RId" THEN map[key.id]
    ELSE map[key.id] \o key.name

\* two resolutions agree: both NONE, or the same name
SameName(a, b) == IF a = NONE THEN b = NONE ELSE (b # NONE /\ a = b)

\* the paths of the reply_data emitted for qid q, in emission order
DataPaths(q) == [k \in 1..Len(DataOf(q)) |-> DataOf(q)[k].path]

C17_OnlyResourceChangesMapping ==
    [][/\ handlers' = handlers
       /\ \A rid \in DOMAIN mappings : rid \in DOMAIN mappings'
       /\ mappings' # mappings =>
             (otherTraced' = otherTraced /\ qs' = qs /\ out' = out)]_vars

\* C17 witness: other primitives operations were called on an admin space
\* that holds a mapping and has answered a query; the mapping is still there.
C17_Witness ==
    /\ otherTraced
    /\ DOMAIN mappings = Rids
    /\ \E q \in Qids : qs[q].pc = "done"

\* C18: nothing is emitted for a query while the query call runs; what is
\* emitted is emitted by the reply task, which starts when every handler was
\* visited: at each moment of the task the reply_data already emitted and the
\* replies it still holds are the results of all the intersecting handlers.
C18_RepliesFromDetachedTask ==
    \A q \in Qids :
        /\ qs[q].pc \in {"idle", "collect"} => out[q] = <<>>
        /\ (qs[q].pc = "reply" /\ qs[q].name # NONE) =>
              DataPaths(q) \o qs[q].replies = Intersecting(handlers, qs[q].name)
        /\ (qs[q].pc = "reply" /\ qs[q].name = NONE) => qs[q].replies = <<>>

\* C18 witness: the reply task of a query has emitted one reply_data and
\* holds two more replies.
C18_Witness ==
    \E q \in Qids :
        /\ qs[q].pc = "reply"
        /\ Len(out[q]) = 1
        /\ Len(qs[q].replies) = 2

\* C21: handle_new_link does not hold the lock of the pending table while it
\* closes a link or while a link authenticator runs: a call that is about to
\* close its refused link, is in its authenticator loop or is about to close
\* an ambiguous link is not a holder of the lock.
C21_LockFreeAcrossCloseAndAuth ==
    \A l \in Links :
        hnl[l] \in {"refuse_close", "auth", "ambiguous_close"} => l \notin incomingLock

\* C22: init_transport for a peer already in the table, with the role,
\* sn_resolution and is_shm of the stored transport, succeeds with the
\* existing transport and leaves the table as it is (no new entry, the stored
\* initial sequence numbers and is_qos kept), also on a full table; a call
\* that creates an entry creates the only entry of its peer, so a repeated or
\* concurrent call with the same parameters gets that one entry.
C22_ExistingReturned ==
    /\ [](\A cfg \in Configs :
            (cfg.peer \in DOMAIN transports /\ ~Differs(transports[cfg.peer], cfg))
               => init_transport_unicast(transports, cfg, max_transports)
                     = [res |-> "ok_existing", table |-> transports])
    /\ [][dt' = dt =>
            /\ itLast' = "ok_existing" => transports' = transports
            /\ transports' # transports =>
                  /\ itLast' = "ok_new"
                  /\ \E p \in Peers \ DOMAIN transports :
                        /\ DOMAIN transports' = DOMAIN transports \cup {p}
                        /\ \A o \in DOMAIN transports : transports'[o] = transports[o]]_vars

\* C22 witness: a call got the existing transport of its peer while the table
\* was full.
C22_Witness ==
    /\ itLast = "ok_existing"
    /\ MapLen(transports) = max_transports
    /\ \E p \in DOMAIN transports : ~transports[p].is_qos /\ transports[p].initial_sn_tx = 0

\* get_listeners_unicast: the listeners of the factories in the registry
get_listeners_unicast ==
    UNION {lms[protocols[p]].listeners : p \in DOMAIN protocols}

\* C23: a listener whose add_listener returned success is reported by
\* get_listeners when the call returns, and a listener that get_listeners
\* reports stays reported until a del_listener call for its own locator takes
\* a step; a del_listener of another locator never removes it.
C23_ListenerStaysUntilOwnDel ==
    [][/\ \A t \in LsTasks :
            (ls[t].op = "add" /\ ls[t].pc = "new_listener" /\ ls'[t].res = "ok")
               => ls[t].loc \in get_listeners_unicast'
       /\ \A loc \in Locators :
            (loc \in get_listeners_unicast /\ loc \notin get_listeners_unicast')
               => \E t \in LsTasks :
                     ls[t].op = "del" /\ ls[t].loc = loc /\ ls'[t] # ls[t]]_vars

\* C25: a del_listener call that has removed its listener returns Ok: a call
\* that returns after lm.del_listener succeeded does not return an error.
C25_ErrorOnlyWhenNothingRemoved ==
    [][\A t \in LsTasks :
          (/\ ls[t].op = "del"
           /\ ls[t].pc \in {"dl_check", "dlm", "dlm_drain"}
           /\ ls'[t].pc = "done")
          => ls'[t].res = "ok"]_vars

\* C24: get_or_new_link_manager terminates: a caller that is in the loop of
\* get_or_new_link_manager eventually leaves it, with a factory or an error
\* (as long as the model has a factory left to construct).
C24_GetOrNewTerminates ==
    \A t \in LsTasks :
        (ls[t].pc \in {"gon_get", "gon_new"})
            ~> (ls[t].pc \notin {"gon_get", "gon_new"} \/ Len(lms) >= MaxLm)

====
